---- MODULE Spec2Model ----
(***************************************************************************)
(* A model of corporate/views/upgrade.py: the three request handlers       *)
(* upgrade, initial_upgrade and sponsorship, together with the parts of    *)
(* the store, the form library and the billing back-end they act on.       *)
(*                                                                         *)
(* Strings are sequences of atoms (one-character strings, or whole words   *)
(* for fixed library texts), so that stripping, parsing, formatting and    *)
(* joining are computed and not assumed.                                   *)
(***************************************************************************)
EXTENDS Integers, Sequences, FiniteSets, TLC

(***************************************************************************)
(* Bounds of the model.                                                    *)
(***************************************************************************)
\* Number of sponsorship requests that may be in flight together.
NumRequests == 2
\* Number of upgrade pages that are rendered (each draws a fresh salt).
MaxPages == 2

None == "None"

(***************************************************************************)
(* Strings.                                                                *)
(***************************************************************************)
Digits == <<"0", "1", "2", "3", "4", "5", "6", "7", "8", "9">>

IsDigit(c) == \E d \in 1..10 : Digits[d] = c

DigitVal(c) == (CHOOSE d \in 1..10 : Digits[d] = c) - 1

\* Python's str(n) for an integer n >= 0: its decimal digits.
RECURSIVE str(_)
str(n) == IF n < 10 THEN <<Digits[n + 1]>> ELSE str(n \div 10) \o <<Digits[(n % 10) + 1]>>

RECURSIVE lstrip(_)
lstrip(s) == IF s # <<>> /\ Head(s) = " " THEN lstrip(Tail(s)) ELSE s

RECURSIVE rstrip(_)
rstrip(s) == IF s # <<>> /\ s[Len(s)] = " " THEN rstrip(SubSeq(s, 1, Len(s) - 1)) ELSE s

\* Python's s.strip().
strip(s) == rstrip(lstrip(s))

RECURSIVE DigitsValue(_)
DigitsValue(s) == IF s = <<>> THEN 0 ELSE 10 * DigitsValue(SubSeq(s, 1, Len(s) - 1)) + DigitVal(s[Len(s)])

AllDigits(s) == s # <<>> /\ \A i \in 1..Len(s) : IsDigit(s[i])

\* Whether Python's int(s) accepts s: blanks around an optional sign and digits.
IsIntLiteral(s) ==
    LET t == strip(s) IN
    \/ AllDigits(t)
    \/ t # <<>> /\ Head(t) \in {"-", "+"} /\ AllDigits(Tail(t))

\* Python's int(s) for a string it accepts.
int(s) ==
    LET t == strip(s) IN
    IF Head(t) = "-" THEN 0 - DigitsValue(Tail(t))
    ELSE IF Head(t) = "+" THEN DigitsValue(Tail(t))
    ELSE DigitsValue(t)

\* Python's sep.join(parts).
RECURSIVE join(_, _)
join(sep, parts) ==
    IF parts = <<>> THEN <<>>
    ELSE IF Len(parts) = 1 THEN parts[1]
    ELSE parts[1] \o sep \o join(sep, Tail(parts))

\* Whether the string part occurs in the string whole.
Contains(whole, part) ==
    \E i \in 0..(Len(whole) - Len(part)) : SubSeq(whole, i + 1, i + Len(part)) = part

RECURSIVE Flatten(_)
Flatten(lists) == IF lists = <<>> THEN <<>> ELSE Head(lists) \o Flatten(Tail(lists))

(***************************************************************************)
(* SponsorshipRequestForm: the fields, their cleaning and their errors.    *)
(***************************************************************************)
\* ZulipSponsorshipRequest.MAX_ORG_URL_LENGTH, counted in atoms and scaled to the
\* websites of the model.
MAX_ORG_URL_LENGTH == 4

\* The ids of the organization types the data model recognizes.
RecognizedOrgTypes == {10, 20}

RequiredMessage == <<"This field is required.">>
InvalidIntegerMessage == <<"Enter a whole number.">>
InvalidURLMessage == <<"Enter a valid URL.">>

MaxLengthMessage(limit, shown) ==
    <<"Ensure this value has at most ">> \o str(limit) \o <<" characters (it has ">> \o str(shown) \o <<").">>

Schemes == {"http://", "https://"}

\* forms.CharField.to_python: the value stripped of surrounding blanks.
CharField_to_python(raw) == strip(raw)

\* forms.URLField.to_python: stripped, and given a scheme when it has none.
URLField_to_python(raw) ==
    LET v == strip(raw) IN
    IF v = <<>> THEN v
    ELSE IF Head(v) \in Schemes THEN v
    ELSE <<"http://">> \o v

\* URLValidator: a scheme followed by a host that holds no blank and no second scheme.
IsValidURL(v) ==
    /\ Len(v) >= 2
    /\ Head(v) \in Schemes
    /\ \A i \in 2..Len(v) : v[i] \notin (Schemes \cup {" "})

\* The errors of one field, in the order the form library reports them.
CharFieldErrors(raw, required) ==
    IF required /\ CharField_to_python(raw) = <<>> THEN <<RequiredMessage>> ELSE <<>>

IntegerFieldErrors(raw) ==
    IF raw = <<>> THEN <<RequiredMessage>>
    ELSE IF ~IsIntLiteral(raw) THEN <<InvalidIntegerMessage>>
    ELSE <<>>

URLFieldErrors(raw, max_length) ==
    LET v == URLField_to_python(raw) IN
    IF v = <<>> THEN <<>>
    ELSE (IF IsValidURL(v) THEN <<>> ELSE <<InvalidURLMessage>>)
         \o (IF Len(v) > max_length THEN <<MaxLengthMessage(max_length, Len(v))>> ELSE <<>>)

\* The declared fields, in declaration order.
FormFields ==
    <<"website", "organization_type", "description", "expected_total_users",
      "paid_users_count", "paid_users_description">>

SponsorshipRequestForm_field_errors(post, field) ==
    CASE field = "website" -> URLFieldErrors(post.website, MAX_ORG_URL_LENGTH)
      [] field = "organization_type" -> IntegerFieldErrors(post.organization_type)
      [] field = "description" -> CharFieldErrors(post.description, TRUE)
      [] field = "expected_total_users" -> CharFieldErrors(post.expected_total_users, TRUE)
      [] field = "paid_users_count" -> CharFieldErrors(post.paid_users_count, TRUE)
      [] field = "paid_users_description" -> CharFieldErrors(post.paid_users_description, FALSE)

\* form.errors.get_json_data().values(): the error lists of the fields that have errors.
form_errors(post) ==
    LET all == [i \in 1..Len(FormFields) |-> SponsorshipRequestForm_field_errors(post, FormFields[i])]
    IN SelectSeq(all, LAMBDA errs : errs # <<>>)

form_is_valid(post) == form_errors(post) = <<>>

\* form.cleaned_data of a valid form.
cleaned_data(post) ==
    [website |-> URLField_to_python(post.website),
     organization_type |-> int(post.organization_type),
     description |-> CharField_to_python(post.description),
     expected_total_users |-> CharField_to_python(post.expected_total_users),
     paid_users_count |-> CharField_to_python(post.paid_users_count),
     paid_users_description |-> CharField_to_python(post.paid_users_description)]

\* A message that holds only the first error of the form.
form_error_message_first_only(post) == Flatten(form_errors(post))[1]

\* " ".join(error["message"] for error_list in ... for error in error_list)
form_error_message(post) == join(<<" ">>, Flatten(form_errors(post)))

\* The submissions the model draws from.
Posts ==
    [organization_type : {<<"1", "0">>, <<"2", "0">>, <<"9", "9">>, <<"x">>},
     website : {<<"zulip.org">>, <<"https://", "a", " ", "b", "c">>},
     description : {<<>>, <<"d", " ">>},
     expected_total_users : {<<"5">>},
     paid_users_count : {<<"2">>},
     paid_users_description : {<<>>}]

(***************************************************************************)
(* The store, the requests in flight and what has left the process.        *)
(***************************************************************************)
VARIABLES
    db,       \* the committed store: request rows, the realm row, the customer, billing admins
    req,      \* the sponsorship requests: position, inputs, realm object, open transaction, response
    emails,   \* the notification emails handed to the mailer
    pages,    \* the seat-count tokens of the upgrade pages rendered so far
    call      \* the most recent call of upgrade or initial_upgrade: inputs, trace and response

vars == <<db, req, emails, pages, call>>

Requests == 1..NumRequests

Users == {"hamlet", "iago"}

\* The member who submits the p-th sponsorship request.
RequestUser(p) == IF p % 2 = 1 THEN "hamlet" ELSE "iago"

delivery_email(user) == <<user, "@zulip.com">>

FromAddress_SUPPORT == <<"support", "@zulip.com">>

PLAN_TYPE_LIMITED == "PLAN_TYPE_LIMITED"
PLAN_TYPE_STANDARD == "PLAN_TYPE_STANDARD"
PLAN_TYPE_STANDARD_FREE == "PLAN_TYPE_STANDARD_FREE"

RealmFields == {"org_type", "plan_type"}

NoCustomer ==
    [exists |-> FALSE, sponsorship_pending |-> FALSE, has_plan |-> FALSE,
     has_discount |-> FALSE, exempt_from_license_number_check |-> FALSE]

EmptyTx == [rows |-> {}, realm_saves |-> {}, realm |-> [f \in {} |-> 0], pending |-> FALSE, admins |-> {}]

\* The store after the writes of a transaction are made durable.
Apply(store, tx) ==
    [rows |-> store.rows \cup tx.rows,
     realm |-> [f \in RealmFields |-> IF f \in DOMAIN tx.realm THEN tx.realm[f] ELSE store.realm[f]],
     realm_saves |-> store.realm_saves \cup tx.realm_saves,
     customer |-> IF tx.pending
                  THEN [store.customer EXCEPT !.exists = TRUE, !.sponsorship_pending = TRUE]
                  ELSE store.customer,
     billing_admins |-> store.billing_admins \cup tx.admins]

\* Leaving `with transaction.atomic()` normally: the block's writes are committed.
atomic_exit(store, tx) == Apply(store, tx)

\* The writes of a block that is not atomic: each is durable as soon as it is made.
atomic_exit_exception_autocommit(store, tx) == Apply(store, tx)

\* Leaving `with transaction.atomic()` by an exception: the block's writes are rolled back.
atomic_exit_exception(store, tx) == store

EmptyPost ==
    [organization_type |-> <<>>, website |-> <<>>, description |-> <<>>,
     expected_total_users |-> <<>>, paid_users_count |-> <<>>, paid_users_description |-> <<>>]

NoResponse ==
    [kind |-> "none", error_description |-> <<>>, message |-> <<>>, raised_in |-> "none", data |-> <<>>]

\* json_success(request, data): the success envelope around the data, if any.
json_success(data) ==
    [kind |-> "json_success", error_description |-> <<>>, message |-> <<>>, raised_in |-> "none",
     data |-> data]

BillingError(error_description, message) ==
    [kind |-> "BillingError", error_description |-> error_description, message |-> message,
     raised_in |-> "none", data |-> <<>>]

\* An exception that is no BillingError, escaping the handler from the given step.
Raised(step) ==
    [kind |-> "Exception", error_description |-> <<>>, message |-> <<>>, raised_in |-> step,
     data |-> <<>>]

IdleRequest ==
    [pc |-> "idle", user |-> None, post |-> EmptyPost,
     realm |-> [org_type |-> 0, plan_type |-> PLAN_TYPE_LIMITED], tx |-> EmptyTx,
     org_type_display_name |-> <<>>, response |-> NoResponse]

\* get_org_type_display_name: the name of a recognized type, and "" for any other.
get_org_type_display_name(org_type) ==
    CASE org_type = 10 -> <<"Business">>
      [] org_type = 20 -> <<"Open-source project">>
      [] OTHER -> <<>>

InitCustomers == {NoCustomer, [NoCustomer EXCEPT !.exists = TRUE, !.has_discount = TRUE]}

InitPlanTypes == {PLAN_TYPE_LIMITED, PLAN_TYPE_STANDARD_FREE}

NoCall ==
    [op |-> "none", pc |-> "done", user |-> None, params |-> <<>>, upgrade_request |-> <<>>,
     billing_session |-> FALSE, do_upgrade_calls |-> 0, executed |-> <<>>, raised |-> <<>>,
     log |-> <<>>, response |-> NoResponse]

Init ==
    /\ \E c \in InitCustomers, plan_type \in InitPlanTypes :
         db = [rows |-> {},
               realm |-> [org_type |-> 10, plan_type |-> plan_type],
               realm_saves |-> {},
               customer |-> c,
               billing_admins |-> {}]
    /\ req = [p \in Requests |-> IdleRequest]
    /\ emails = {}
    /\ pages = {}
    /\ call = NoCall

(***************************************************************************)
(* sponsorship, step by step.                                              *)
(***************************************************************************)
\* Line 240.
FormValidationError(post) == BillingError(<<"Form validation error">>, form_error_message(post))

\* The handler with the sponsorship status set before the form is validated.
sponsorship_writes_before_validation(p, user, post) ==
    /\ req[p].pc = "idle"
    /\ user = RequestUser(p)
    /\ \A q \in Requests : q < p => req[q].pc # "idle"
    /\ db' = Apply(db, [EmptyTx EXCEPT !.pending = TRUE])
    /\ IF form_is_valid(post)
       THEN req' = [req EXCEPT ![p] = [@ EXCEPT !.pc = "sponsorship_request.save",
                                                !.user = user, !.post = post,
                                                !.realm = db.realm]]
       ELSE req' = [req EXCEPT ![p] = [@ EXCEPT !.pc = "done",
                                                !.user = user, !.post = post,
                                                !.realm = db.realm,
                                                !.response = FormValidationError(post)]]
    /\ UNCHANGED <<emails, pages, call>>

\* Lines 174-188 and 234-240: the realm object is taken from the user, the form is
\* built from the submission and validated; an invalid form ends the call.
sponsorship(p, user, post) ==
    /\ req[p].pc = "idle"
    /\ user = RequestUser(p)
    /\ \A q \in Requests : q < p => req[q].pc # "idle"
    /\ IF form_is_valid(post)
       THEN req' = [req EXCEPT ![p] = [@ EXCEPT !.pc = "sponsorship_request.save",
                                                !.user = user, !.post = post,
                                                !.realm = db.realm]]
       ELSE req' = [req EXCEPT ![p] = [@ EXCEPT !.pc = "done",
                                                !.user = user, !.post = post,
                                                !.realm = db.realm,
                                                !.response = FormValidationError(post)]]
    /\ UNCHANGED <<db, emails, pages, call>>

\* A step inside the atomic block raises: the block is left by the exception, which
\* escapes the handler.
step_raises(p, step) ==
    /\ req[p].pc = step
    /\ db' = atomic_exit_exception(db, req[p].tx)
    /\ req' = [req EXCEPT ![p] = [@ EXCEPT !.pc = "done", !.tx = EmptyTx, !.response = Raised(step)]]
    /\ UNCHANGED <<emails, pages, call>>

\* The row built without its requester.
ZulipSponsorshipRequest_without_requester(p, realm, user, data) ==
    [id |-> p, realm |-> realm, requested_by |-> None,
     org_website |-> data.website,
     org_description |-> data.description,
     org_type |-> data.organization_type,
     expected_total_users |-> data.expected_total_users,
     paid_users_count |-> data.paid_users_count,
     paid_users_description |-> data.paid_users_description]

\* Lines 190-200.
ZulipSponsorshipRequest(p, realm, user, data) ==
    [id |-> p, realm |-> realm, requested_by |-> user,
     org_website |-> data.website,
     org_description |-> data.description,
     org_type |-> data.organization_type,
     expected_total_users |-> data.expected_total_users,
     paid_users_count |-> data.paid_users_count,
     paid_users_description |-> data.paid_users_description]

sponsorship_request_save(p) ==
    /\ req[p].pc = "sponsorship_request.save"
    /\ LET row == ZulipSponsorshipRequest(p, "zulip", req[p].user, cleaned_data(req[p].post))
       IN req' = [req EXCEPT ![p] = [@ EXCEPT !.pc = "realm.save",
                                              !.tx = [@ EXCEPT !.rows = @ \cup {row}]]]
    /\ UNCHANGED <<db, emails, pages, call>>

\* realm.save(update_fields=...): the named fields of the realm object are written.
realm_save(tx, p, realm, update_fields) ==
    [tx EXCEPT !.realm = [f \in (DOMAIN tx.realm) \cup update_fields |->
                             IF f \in update_fields THEN realm[f] ELSE tx.realm[f]],
               !.realm_saves = @ \cup {[by |-> p, update_fields |-> update_fields]}]

\* The step with the realm saved whether or not the type differs.
sponsorship_org_type_always_saves(p) ==
    /\ req[p].pc = "realm.save"
    /\ LET org_type == cleaned_data(req[p].post).organization_type
           realm == [req[p].realm EXCEPT !.org_type = org_type]
       IN req' = [req EXCEPT ![p] = [@ EXCEPT !.pc = "update_customer_sponsorship_status",
                                              !.realm = realm,
                                              !.tx = realm_save(@, p, realm, {"org_type"})]]
    /\ UNCHANGED <<db, emails, pages, call>>

\* Lines 202-205.
sponsorship_org_type(p) ==
    /\ req[p].pc = "realm.save"
    /\ LET org_type == cleaned_data(req[p].post).organization_type
           realm == [req[p].realm EXCEPT !.org_type = org_type]
       IN IF req[p].realm.org_type # org_type
          THEN req' = [req EXCEPT ![p] = [@ EXCEPT !.pc = "update_customer_sponsorship_status",
                                                   !.realm = realm,
                                                   !.tx = realm_save(@, p, realm, {"org_type"})]]
          ELSE req' = [req EXCEPT ![p] = [@ EXCEPT !.pc = "update_customer_sponsorship_status"]]
    /\ UNCHANGED <<db, emails, pages, call>>

\* The step with the sponsorship status left as it was.
update_customer_sponsorship_status_keeps_flag(p) ==
    /\ req[p].pc = "update_customer_sponsorship_status"
    /\ req' = [req EXCEPT ![p] = [@ EXCEPT !.pc = "do_make_user_billing_admin"]]
    /\ UNCHANGED <<db, emails, pages, call>>

\* Line 207.
update_customer_sponsorship_status(p) ==
    /\ req[p].pc = "update_customer_sponsorship_status"
    /\ req' = [req EXCEPT ![p] = [@ EXCEPT !.pc = "do_make_user_billing_admin",
                                           !.tx = [@ EXCEPT !.pending = TRUE]]]
    /\ UNCHANGED <<db, emails, pages, call>>

\* The step with the notification email sent from inside the atomic block.
do_make_user_billing_admin_sends_email(p) ==
    /\ req[p].pc = "do_make_user_billing_admin"
    /\ req' = [req EXCEPT ![p] = [@ EXCEPT !.pc = "atomic_exit",
                                           !.tx = [@ EXCEPT !.admins = @ \cup {req[p].user}]]]
    /\ emails' = emails \cup {[by |-> p,
                                to_emails |-> {FromAddress_SUPPORT},
                                reply_to_email |-> delivery_email(req[p].user),
                                organization_type |-> <<>>,
                                description |-> req[p].post.description]}
    /\ UNCHANGED <<db, pages, call>>

\* Line 208.
do_make_user_billing_admin(p) ==
    /\ req[p].pc = "do_make_user_billing_admin"
    /\ req' = [req EXCEPT ![p] = [@ EXCEPT !.pc = "atomic_exit",
                                           !.tx = [@ EXCEPT !.admins = @ \cup {req[p].user}]]]
    /\ UNCHANGED <<db, emails, pages, call>>

\* Line 210 and the end of the block: the display name is resolved and the block commits.
sponsorship_commit(p) ==
    /\ req[p].pc = "atomic_exit"
    /\ db' = atomic_exit(db, req[p].tx)
    /\ req' = [req EXCEPT ![p] = [@ EXCEPT !.pc = "send_email", !.tx = EmptyTx,
                                           !.org_type_display_name =
                                               get_org_type_display_name(cleaned_data(req[p].post).organization_type)]]
    /\ UNCHANGED <<emails, pages, call>>

\* Lines 212-231.
sponsorship_email(p) ==
    [by |-> p,
     to_emails |-> {FromAddress_SUPPORT},
     reply_to_email |-> delivery_email(req[p].user),
     organization_type |-> req[p].org_type_display_name,
     description |-> req[p].post.description]

\* The step with a failure to send caught and success reported all the same.
send_email_swallows_failure(p) ==
    /\ req[p].pc = "send_email"
    /\ \/ /\ emails' = emails \cup {sponsorship_email(p)}
          /\ req' = [req EXCEPT ![p] = [@ EXCEPT !.pc = "done", !.response = json_success(<<>>)]]
       \/ /\ emails' = emails
          /\ req' = [req EXCEPT ![p] = [@ EXCEPT !.pc = "done", !.response = json_success(<<>>)]]
    /\ UNCHANGED <<db, pages, call>>

\* Lines 224-233: the email is sent and the call returns success; a failure to send
\* escapes the handler.
send_email(p) ==
    /\ req[p].pc = "send_email"
    /\ \/ /\ emails' = emails \cup {sponsorship_email(p)}
          /\ req' = [req EXCEPT ![p] = [@ EXCEPT !.pc = "done", !.response = json_success(<<>>)]]
       \/ /\ emails' = emails
          /\ req' = [req EXCEPT ![p] = [@ EXCEPT !.pc = "done", !.response = Raised("send_email")]]
    /\ UNCHANGED <<db, pages, call>>

AtomicSteps ==
    {"sponsorship_request.save", "realm.save", "update_customer_sponsorship_status",
     "do_make_user_billing_admin", "atomic_exit"}

NextSponsorship ==
    \E p \in Requests :
        \/ \E user \in Users, post \in Posts : sponsorship(p, user, post)
        \/ sponsorship_request_save(p)
        \/ sponsorship_org_type(p)
        \/ update_customer_sponsorship_status(p)
        \/ do_make_user_billing_admin(p)
        \/ sponsorship_commit(p)
        \/ \E step \in AtomicSteps : step_raises(p, step)
        \/ send_email(p)

(***************************************************************************)
(* Seat-count signing (sign_string, and the back-end's verification).       *)
(***************************************************************************)
SECRET_KEY == "secret-key"

\* The signature of a value under a salt and the process-wide secret.
Signature(value, salt) == [key |-> SECRET_KEY, salt |-> salt, value |-> value]

\* sign_string(string) with the salt drawn for it: the signed string and the salt.
sign_string(string, salt) ==
    [signed |-> [value |-> string, signature |-> Signature(string, salt)], salt |-> salt]

\* Whether the signature of a signed string is the one its value has under the salt.
signature_matches(signed, salt) == signed.signature = Signature(signed.value, salt)

\* verify: the integer a signed string carries; only asked of one whose signature matches.
unsign_seat_count(signed, salt) == int(signed.value)

\* The seat counts get_latest_seat_count may report.
SeatCounts == {7, 12}

\* What a client may send back for a rendered page: the token as rendered, the token with
\* another value put in, or the token with another salt.
ClientTokens(pg) ==
    {[signed_seat_count |-> pg.signed_seat_count, salt |-> pg.salt]}
    \cup {[signed_seat_count |-> [pg.signed_seat_count EXCEPT !.value = str(v)], salt |-> pg.salt] :
            v \in {pg.seat_count + 1}}
    \cup {[signed_seat_count |-> pg.signed_seat_count, salt |-> pg.salt + 1]}

(***************************************************************************)
(* upgrade.                                                                *)
(***************************************************************************)
VALID_BILLING_MODALITY_VALUES == {"send_invoice", "charge_automatically"}
VALID_BILLING_SCHEDULE_VALUES == {"annual", "monthly"}
VALID_LICENSE_MANAGEMENT_VALUES == {"automatic", "manual"}

ZULIP_ADMINISTRATOR == <<"desdemona", "@zulip.com">>

\* BillingError.CONTACT_SUPPORT: the fixed text, with the place of the address.
CONTACT_SUPPORT == <<"Something went wrong. Please contact ", "{email}", ".">>

\* template.format(email=email)
RECURSIVE format(_, _)
format(template, email) ==
    IF template = <<>> THEN <<>>
    ELSE (IF Head(template) = "{email}" THEN email ELSE <<Head(template)>>)
         \o format(Tail(template), email)

UserId(user) == IF user = "hamlet" THEN 10 ELSE 11

\* The failure of verification, as the back-end raises it.
IntegrityError == BillingError(<<"IntegrityError">>, <<"seat-count signature mismatch">>)

\* What the back-end may raise besides: a business-rule rejection, or a programming error.
BackendBillingErrors ==
    {BillingError(<<"not enough licenses">>, <<"You must purchase licenses for all active users.">>)}

OtherExceptions ==
    {[kind |-> "Exception", error_description |-> <<"AssertionError">>,
      message |-> <<"plan for customer 7 already exists">>, raised_in |-> "none", data |-> <<>>]}

\* What the back-end may return.
BackendResults == {<<"organization_upgrade_successful">>, <<"stripe_session_url">>}

\* What a step of the try block may raise.
Exceptions == BackendBillingErrors \cup OtherExceptions

UpgradeParams ==
    [billing_modality : {"charge_automatically", "bogus"},
     schedule : {"monthly", "bogus"},
     onboarding : {FALSE},
     license_management : {None, "manual"},
     licenses : {<<>>, <<5>>}]

\* The validators with the one of schedule left out.
upgrade_invalid_parameter_no_schedule(params) ==
    IF params.billing_modality \notin VALID_BILLING_MODALITY_VALUES THEN "billing_modality"
    ELSE IF params.license_management # None
            /\ params.license_management \notin VALID_LICENSE_MANAGEMENT_VALUES THEN "license_management"
    ELSE "none"

\* The validators of has_request_variables, in parameter order: the first parameter
\* that fails, or "none".
upgrade_invalid_parameter(params) ==
    IF params.billing_modality \notin VALID_BILLING_MODALITY_VALUES THEN "billing_modality"
    ELSE IF params.schedule \notin VALID_BILLING_SCHEDULE_VALUES THEN "schedule"
    ELSE IF params.license_management # None
            /\ params.license_management \notin VALID_LICENSE_MANAGEMENT_VALUES THEN "license_management"
    ELSE "none"

JsonableError(message) ==
    [kind |-> "JsonableError", error_description |-> <<>>, message |-> message,
     raised_in |-> "none", data |-> <<>>]

\* Lines 58-66.
UpgradeRequest(params, token) ==
    [billing_modality |-> params.billing_modality,
     schedule |-> params.schedule,
     signed_seat_count |-> token.signed_seat_count,
     salt |-> token.salt,
     onboarding |-> params.onboarding,
     license_management |-> params.license_management,
     licenses |-> params.licenses]

\* do_upgrade: verification of the seat count, then the back-end's own work, which
\* returns data, rejects the upgrade or breaks (outcome: what it raises, if anything).
do_upgrade(upgrade_request, outcome, data) ==
    IF ~signature_matches(upgrade_request.signed_seat_count, upgrade_request.salt)
    THEN [raised |-> <<IntegrityError>>, executed |-> <<>>, data |-> <<>>]
    ELSE IF outcome # <<>>
    THEN [raised |-> outcome, executed |-> <<>>, data |-> <<>>]
    ELSE [raised |-> <<>>,
          executed |-> <<[seat_count |-> unsign_seat_count(upgrade_request.signed_seat_count,
                                                          upgrade_request.salt),
                          billing_modality |-> upgrade_request.billing_modality,
                          schedule |-> upgrade_request.schedule,
                          license_management |-> upgrade_request.license_management,
                          licenses |-> upgrade_request.licenses,
                          data |-> data]>>,
          data |-> data]

\* Lines 71-82.
BillingErrorWarning(e, user, params) ==
    [level |-> "warning",
     error_description |-> e.error_description,
     user |-> UserId(user), realm |-> 2, string_id |-> "zulip",
     billing_modality |-> params.billing_modality,
     schedule |-> params.schedule,
     license_management |-> params.license_management,
     licenses |-> params.licenses]

\* Line 85.
UncaughtExceptionLog(e) ==
    [level |-> "error", message |-> <<"Uncaught exception in billing:">>, traceback |-> e]

\* The handler with a BillingError swallowed and success returned.
upgrade_except_swallows(e, user, params) ==
    IF e.kind = "BillingError"
    THEN [log |-> <<BillingErrorWarning(e, user, params)>>, response |-> json_success(<<>>)]
    ELSE [log |-> <<UncaughtExceptionLog(e)>>,
          response |-> BillingError(<<"uncaught exception during upgrade">>,
                                    format(CONTACT_SUPPORT, ZULIP_ADMINISTRATOR))]

\* The handler without its `except BillingError` clause.
upgrade_except_all_generic(e, user, params) ==
    [log |-> <<UncaughtExceptionLog(e)>>,
     response |-> BillingError(<<"uncaught exception during upgrade">>,
                               format(CONTACT_SUPPORT, ZULIP_ADMINISTRATOR))]

\* The handler with the text of the exception put into the message.
upgrade_except_leaks(e, user, params) ==
    IF e.kind = "BillingError"
    THEN [log |-> <<BillingErrorWarning(e, user, params)>>, response |-> e]
    ELSE [log |-> <<UncaughtExceptionLog(e)>>,
          response |-> BillingError(<<"uncaught exception during upgrade">>,
                                    format(CONTACT_SUPPORT, ZULIP_ADMINISTRATOR) \o e.message)]

\* Lines 70-88: what the handler does with an exception raised in the try block.
upgrade_except(e, user, params) ==
    IF e.kind = "BillingError"
    THEN [log |-> <<BillingErrorWarning(e, user, params)>>, response |-> e]
    ELSE [log |-> <<UncaughtExceptionLog(e)>>,
          response |-> BillingError(<<"uncaught exception during upgrade">>,
                                    format(CONTACT_SUPPORT, ZULIP_ADMINISTRATOR))]

\* The store after the back-end has carried out an upgrade: the customer has a plan.
upgrade_executed(store) ==
    [store EXCEPT !.customer = [@ EXCEPT !.exists = TRUE, !.has_plan = TRUE],
                  !.realm = [@ EXCEPT !.plan_type = PLAN_TYPE_STANDARD]]

\* Lines 42-56: the call arrives and has_request_variables validates its parameters.
upgrade(user, params, token) ==
    /\ call.pc = "done"
    /\ LET arrived == [NoCall EXCEPT !.op = "upgrade", !.user = user,
                                     !.params = <<[params |-> params, token |-> token]>>]
           invalid == upgrade_invalid_parameter(params)
       IN  call' = IF invalid # "none"
                   THEN [arrived EXCEPT !.response = JsonableError(<<"Invalid ", invalid>>)]
                   ELSE [arrived EXCEPT !.pc = "UpgradeRequest"]
    /\ UNCHANGED <<db, req, emails, pages>>

\* A step of the try block raises.
upgrade_raises(step, e) ==
    /\ call.pc = step
    /\ call' = [call EXCEPT !.pc = "except", !.raised = <<e>>]
    /\ UNCHANGED <<db, req, emails, pages>>

\* Lines 58-66.
upgrade_build_request ==
    /\ call.pc = "UpgradeRequest"
    /\ call' = [call EXCEPT !.pc = "RealmBillingSession",
                            !.upgrade_request = <<UpgradeRequest(call.params[1].params,
                                                                 call.params[1].token)>>]
    /\ UNCHANGED <<db, req, emails, pages>>

\* Line 67.
upgrade_billing_session ==
    /\ call.pc = "RealmBillingSession"
    /\ call' = [call EXCEPT !.pc = "do_upgrade", !.billing_session = TRUE]
    /\ UNCHANGED <<db, req, emails, pages>>

\* Line 68.
upgrade_do_upgrade(outcome, data) ==
    /\ call.pc = "do_upgrade"
    /\ LET result == do_upgrade(call.upgrade_request[1], outcome, data) IN
       /\ call' = IF result.raised # <<>>
                   THEN [call EXCEPT !.pc = "except", !.do_upgrade_calls = @ + 1,
                                     !.raised = result.raised]
                   ELSE [call EXCEPT !.pc = "json_success", !.do_upgrade_calls = @ + 1,
                                     !.executed = result.executed,
                                     !.response = [NoResponse EXCEPT !.data = result.data]]
       /\ db' = IF result.executed # <<>> THEN upgrade_executed(db) ELSE db
    /\ UNCHANGED <<req, emails, pages>>

\* The step with the success envelope returned without the back-end's data.
upgrade_json_success_without_data ==
    /\ call.pc = "json_success"
    /\ call' = [call EXCEPT !.pc = "done", !.response = json_success(<<>>)]
    /\ UNCHANGED <<db, req, emails, pages>>

\* Line 69.
upgrade_json_success ==
    /\ call.pc = "json_success"
    /\ call' = [call EXCEPT !.pc = "done", !.response = json_success(call.response.data)]
    /\ UNCHANGED <<db, req, emails, pages>>

\* Lines 70-88.
upgrade_handle_exception ==
    /\ call.pc = "except"
    /\ LET handled == upgrade_except(call.raised[1], call.user, call.params[1].params) IN
       call' = [call EXCEPT !.pc = "done", !.log = handled.log, !.response = handled.response]
    /\ UNCHANGED <<db, req, emails, pages>>

(***************************************************************************)
(* initial_upgrade.                                                        *)
(***************************************************************************)
\* MIN_INVOICED_LICENSES, scaled to the seat counts of the model.
MIN_INVOICED_LICENSES == 10

Guests == {"polonius"}

Max(a, b) == IF a >= b THEN a ELSE b

render_404 == [kind |-> "render", status |-> 404, url |-> <<"404.html">>, context |-> <<>>]

HttpResponseRedirect(url) == [kind |-> "redirect", status |-> 302, url |-> url, context |-> <<>>]

\* The page's data with the minimum of invoiced licenses signed in place of the seat count.
upgrade_page_context_signs_minimum(user, customer, seat_count, salt, onboarding, manual_license_management) ==
    LET signed == sign_string(str(Max(seat_count, MIN_INVOICED_LICENSES)), salt) IN
    [email |-> delivery_email(user),
     seat_count |-> seat_count,
     signed_seat_count |-> signed.signed,
     salt |-> signed.salt,
     min_invoiced_licenses |-> Max(seat_count, MIN_INVOICED_LICENSES),
     exempt_from_license_number_check |-> customer.exists /\ customer.exempt_from_license_number_check,
     percent_off |-> IF customer.exists /\ customer.has_discount THEN 20 ELSE 0,
     onboarding |-> onboarding,
     manual_license_management |-> manual_license_management]

\* Lines 124-147: the page's data, with the seat count signed under the salt drawn.
upgrade_page_context(user, customer, seat_count, salt, onboarding, manual_license_management) ==
    LET signed == sign_string(str(seat_count), salt) IN
    [email |-> delivery_email(user),
     seat_count |-> seat_count,
     signed_seat_count |-> signed.signed,
     salt |-> signed.salt,
     min_invoiced_licenses |-> Max(seat_count, MIN_INVOICED_LICENSES),
     exempt_from_license_number_check |-> customer.exists /\ customer.exempt_from_license_number_check,
     percent_off |-> IF customer.exists /\ customer.has_discount THEN 20 ELSE 0,
     onboarding |-> onboarding,
     manual_license_management |-> manual_license_management]

\* The handler with the billing-home redirect tested before the sponsorship redirect.
initial_upgrade_response_billing_first(store, billing_enabled, user, onboarding, manual_license_management, seat_count, salt) ==
    LET customer == store.customer IN
    IF ~billing_enabled \/ user \in Guests
    THEN render_404
    ELSE IF customer.exists /\ (customer.has_plan \/ onboarding)
    THEN HttpResponseRedirect(IF onboarding THEN <<"/billing/", "?onboarding=true">> ELSE <<"/billing/">>)
    ELSE IF (customer.exists /\ customer.sponsorship_pending)
            \/ store.realm.plan_type = PLAN_TYPE_STANDARD_FREE
    THEN HttpResponseRedirect(<<"/sponsorship/">>)
    ELSE [kind |-> "render", status |-> 200, url |-> <<"corporate/upgrade.html">>,
          context |-> <<upgrade_page_context(user, customer, seat_count, salt, onboarding,
                                             manual_license_management)>>]

\* Lines 98-150: the response of the handler.
initial_upgrade_response(store, billing_enabled, user, onboarding, manual_license_management, seat_count, salt) ==
    LET customer == store.customer IN
    IF ~billing_enabled \/ user \in Guests
    THEN render_404
    ELSE IF (customer.exists /\ customer.sponsorship_pending)
            \/ store.realm.plan_type = PLAN_TYPE_STANDARD_FREE
    THEN HttpResponseRedirect(<<"/sponsorship/">>)
    ELSE IF customer.exists /\ (customer.has_plan \/ onboarding)
    THEN HttpResponseRedirect(IF onboarding THEN <<"/billing/", "?onboarding=true">> ELSE <<"/billing/">>)
    ELSE [kind |-> "render", status |-> 200, url |-> <<"corporate/upgrade.html">>,
          context |-> <<upgrade_page_context(user, customer, seat_count, salt, onboarding,
                                             manual_license_management)>>]

initial_upgrade(billing_enabled, user, onboarding, manual_license_management, seat_count) ==
    LET salt == Cardinality(pages) + 1
        response == initial_upgrade_response(db, billing_enabled, user, onboarding,
                                             manual_license_management, seat_count, salt)
    IN  /\ call.pc = "done"
        /\ response.context # <<>> => Cardinality(pages) < MaxPages
        /\ call' = [NoCall EXCEPT !.op = "initial_upgrade", !.user = user,
                                  !.params = <<[onboarding |-> onboarding,
                                                billing_enabled |-> billing_enabled]>>,
                                  !.response = [NoResponse EXCEPT !.kind = response.kind,
                                                                  !.data = <<response>>]]
        /\ pages' = IF response.context = <<>> THEN pages
                    ELSE pages \cup {[seat_count |-> seat_count,
                                      signed_seat_count |-> response.context[1].signed_seat_count,
                                      salt |-> response.context[1].salt]}
        /\ UNCHANGED <<db, req, emails>>

TrySteps == {"UpgradeRequest", "RealmBillingSession", "json_success"}

NextUpgrade ==
    \/ \E billing_enabled \in BOOLEAN, user \in Users \cup Guests, onboarding \in BOOLEAN,
          seat_count \in SeatCounts :
            initial_upgrade(billing_enabled, user, onboarding, FALSE, seat_count)
    \/ \E user \in Users, params \in UpgradeParams, pg \in pages :
         \E token \in ClientTokens(pg) : upgrade(user, params, token)
    \/ upgrade_build_request
    \/ upgrade_billing_session
    \/ \E data \in BackendResults : upgrade_do_upgrade(<<>>, data)
    \/ \E e \in Exceptions : upgrade_do_upgrade(<<e>>, <<>>)
    \/ upgrade_json_success
    \/ \E step \in TrySteps, e \in Exceptions : upgrade_raises(step, e)
    \/ upgrade_handle_exception

Next == NextSponsorship \/ NextUpgrade

SpecSponsorship == Init /\ [][NextSponsorship]_vars

SpecUpgrade == Init /\ [][NextUpgrade]_vars

Spec == Init /\ [][Next]_vars

(***************************************************************************)
(* Sponsorship submissions interleaved with visits of the upgrade page.    *)
(***************************************************************************)
\* A customer who already has an active plan.
CustomerWithPlan == [NoCustomer EXCEPT !.exists = TRUE, !.has_plan = TRUE]

\* The submissions drawn here: a valid one that changes the org_type, and an invalid one.
PendingPosts ==
    {post \in Posts : /\ post.organization_type \in {<<"2", "0">>, <<"x">>}
                      /\ post.website = <<"zulip.org">>
                      /\ post.description = <<"d", " ">>}

\* The organizations of Init, and one on the standard plan whose customer has a plan.
InitPending ==
    /\ \E c \in InitCustomers \cup {CustomerWithPlan},
          plan_type \in InitPlanTypes \cup {PLAN_TYPE_STANDARD} :
         /\ c.has_plan <=> plan_type = PLAN_TYPE_STANDARD
         /\ db = [rows |-> {},
                  realm |-> [org_type |-> 10, plan_type |-> plan_type],
                  realm_saves |-> {},
                  customer |-> c,
                  billing_admins |-> {}]
    /\ req = [p \in Requests |-> IdleRequest]
    /\ emails = {}
    /\ pages = {}
    /\ call = NoCall

NextPending ==
    \/ /\ NextSponsorship
       /\ \A p \in Requests : req'[p].post \in PendingPosts \cup {EmptyPost}
    \/ \E billing_enabled \in BOOLEAN, user \in {"hamlet"} \cup Guests, onboarding \in BOOLEAN :
            initial_upgrade(billing_enabled, user, onboarding, FALSE, 7)

SpecPending == InitPending /\ [][NextPending]_vars

(***************************************************************************)
(* Properties of sponsorship.                                              *)
(***************************************************************************)
\* The request p has left the atomic block by an exception.
FailedInBlock(p) ==
    /\ req[p].pc = "done"
    /\ req[p].response.kind = "Exception"
    /\ req[p].response.raised_in \in AtomicSteps

\* Nothing in the store or the mailer comes from request p.
NoTraceOf(p) ==
    /\ \A row \in db.rows : row.id # p
    /\ \A save \in db.realm_saves : save.by # p
    /\ \A email \in emails : email.by # p

\* The step taken is request p leaving the atomic block by an exception.
FailsInBlock(p) ==
    /\ req[p].pc \in AtomicSteps
    /\ req'[p].pc = "done"

\* C1. Sponsorship atomicity: when a step inside the transaction of a valid submission
\* fails, the failing step leaves the whole store (request rows, persisted org_type,
\* sponsorship-pending flag, billing admins) as it was, no earlier step of the call
\* has changed it, and afterwards the store holds no row and no org_type write of
\* that call and no notification email of it was sent.
C1_SponsorshipAtomicity ==
    /\ [](\A p \in Requests : FailedInBlock(p) => NoTraceOf(p))
    /\ [][\A p \in Requests :
            /\ FailsInBlock(p) => db' = db /\ emails' = emails
            /\ (req[p].pc \in AtomicSteps \ {"atomic_exit"} /\ req'[p] # req[p]) => db' = db
         ]_vars

\* The permission grant of a valid submission that changes the org_type has failed, and
\* the store is as it was before the call.
C1_Witness ==
    \E p \in Requests :
        /\ FailedInBlock(p)
        /\ req[p].response.raised_in = "do_make_user_billing_admin"
        /\ form_is_valid(req[p].post)
        /\ cleaned_data(req[p].post).organization_type = 20
        /\ db.rows = {} /\ db.realm.org_type = 10 /\ db.realm_saves = {}
        /\ ~db.customer.sponsorship_pending
        /\ db.billing_admins = {}
        /\ emails = {}

\* C5. An invalid sponsorship form aborts before any write: the call ends at once in a
\* billing error of category 'Form validation error', the step leaves the store and
\* the mailer as they were, and nothing of the call is ever found in them.
C5_InvalidFormAbortsBeforeWrite ==
    /\ [](\A p \in Requests :
            (req[p].pc # "idle" /\ ~form_is_valid(req[p].post)) =>
                /\ req[p].pc = "done"
                /\ req[p].response.kind = "BillingError"
                /\ req[p].response.error_description = <<"Form validation error">>
                /\ req[p].tx = EmptyTx
                /\ NoTraceOf(p))
    /\ [][\A p \in Requests :
            (req[p].pc = "idle" /\ req'[p].pc # "idle" /\ ~form_is_valid(req'[p].post)) =>
                db' = db /\ emails' = emails
         ]_vars

\* A submission with an empty description has ended in the form validation error, with
\* the store untouched.
C5_Witness ==
    \E p \in Requests :
        /\ req[p].pc = "done"
        /\ req[p].post.description = <<>>
        /\ req[p].post.organization_type = <<"2", "0">>
        /\ req[p].response.kind = "BillingError"
        /\ req[p].response.error_description = <<"Form validation error">>
        /\ db.rows = {} /\ db.realm.org_type = 10 /\ ~db.customer.sponsorship_pending
        /\ db.billing_admins = {} /\ emails = {}

\* C6 (as claimed). A submission whose organization_type is an integer that is not a
\* recognized organization type fails validation: it never succeeds, no request row
\* with an unrecognized type is persisted, and the organization's org_type is never set
\* to an unrecognized value.
C6_OrgTypeRecognized ==
    /\ \A p \in Requests :
          (/\ req[p].pc = "done"
           /\ IsIntLiteral(req[p].post.organization_type)
           /\ int(req[p].post.organization_type) \notin RecognizedOrgTypes)
          => req[p].response.kind # "json_success"
    /\ \A row \in db.rows : row.org_type \in RecognizedOrgTypes
    /\ db.realm.org_type \in RecognizedOrgTypes

\* Every error of every field of the submission occurs in the message.
HoldsEveryFieldError(message, post) ==
    \A i \in 1..Len(FormFields) :
        LET errors == SponsorshipRequestForm_field_errors(post, FormFields[i]) IN
        \A j \in 1..Len(errors) : Contains(message, errors[j])

\* The fields of the submission that have errors.
InvalidFields(post) ==
    {i \in 1..Len(FormFields) : SponsorshipRequestForm_field_errors(post, FormFields[i]) # <<>>}

\* C7. Error message aggregation: an invalid sponsorship form ends in one billing error
\* whose message holds every error of every invalid field.
C7_ErrorMessageAggregation ==
    \A p \in Requests :
        (req[p].pc # "idle" /\ InvalidFields(req[p].post) # {}) =>
            /\ req[p].pc = "done"
            /\ req[p].response.kind = "BillingError"
            /\ HoldsEveryFieldError(req[p].response.message, req[p].post)

\* A submission with three invalid fields, one of them with two errors, has ended in
\* one error whose message holds the four of them.
C7_Witness ==
    \E p \in Requests :
        /\ req[p].pc = "done"
        /\ Cardinality(InvalidFields(req[p].post)) = 3
        /\ Len(SponsorshipRequestForm_field_errors(req[p].post, "website")) = 2
        /\ req[p].response.message =
              <<"Enter a valid URL.", " ",
                "Ensure this value has at most ", "4", " characters (it has ", "5", ").", " ",
                "Enter a whole number.", " ", "This field is required.">>

\* The writes of the realm row that request p has made, pending or committed.
RealmSavesOf(p) == {save \in db.realm_saves \cup req[p].tx.realm_saves : save.by = p}

UpgradeCall == call.op = "upgrade"

\* The token of the call is the one rendered on page pg, unmodified.
RenderedAs(pg) ==
    call.params[1].token = [signed_seat_count |-> pg.signed_seat_count, salt |-> pg.salt]

\* The token of the call keeps the salt and the signature of page pg and carries
\* another seat count.
TamperedFrom(pg) ==
    /\ call.params[1].token.salt = pg.salt
    /\ call.params[1].token.signed_seat_count.signature = pg.signed_seat_count.signature
    /\ call.params[1].token.signed_seat_count.value # str(pg.seat_count)

\* C2. Tamper detection: when the seat count signed on a page is replaced by another
\* and the salt and signature are kept, verification fails with the IntegrityError,
\* which reaches the client as that billing error (with its warning logged); no upgrade
\* is executed for the call, and an executed upgrade always carries the seat count of
\* the unmodified page it was rendered with.
C2_TamperDetection ==
    /\ \A pg \in pages :
          (UpgradeCall /\ TamperedFrom(pg)) =>
              /\ call.executed = <<>>
              /\ call.do_upgrade_calls = 1 => call.raised = <<IntegrityError>>
              /\ (call.do_upgrade_calls = 1 /\ call.pc = "done") =>
                    /\ call.response.kind = "BillingError"
                    /\ call.response.error_description = <<"IntegrityError">>
                    /\ Len(call.log) = 1 /\ call.log[1].level = "warning"
    /\ (UpgradeCall /\ call.executed # <<>>) =>
          \E pg \in pages : RenderedAs(pg) /\ call.executed[1].seat_count = pg.seat_count

\* A call with the seat count 7 of a page replaced by 8 has ended in the IntegrityError.
C2_Witness ==
    /\ UpgradeCall /\ call.pc = "done"
    /\ \E pg \in pages : TamperedFrom(pg) /\ pg.seat_count = 7
    /\ call.params[1].token.signed_seat_count.value = <<"8">>
    /\ call.response.error_description = <<"IntegrityError">>
    /\ call.executed = <<>>

\* C3. Round trip: a token and salt submitted as rendered verify (the back-end raises
\* no IntegrityError, and executes the upgrade unless it raises something else), and
\* the seat count of the executed upgrade is the one that was signed.
C3_RoundTrip ==
    \A pg \in pages :
        (UpgradeCall /\ RenderedAs(pg) /\ call.do_upgrade_calls = 1) =>
            /\ call.raised # <<IntegrityError>>
            /\ (call.raised = <<>>) => call.executed # <<>>
            /\ (call.executed # <<>>) => call.executed[1].seat_count = pg.seat_count

\* The unmodified token of a page rendered for 12 seats has been submitted and the
\* upgrade executed with 12 seats.
C3_Witness ==
    /\ UpgradeCall /\ call.pc = "done"
    /\ call.response.kind = "json_success"
    /\ \E pg \in pages : RenderedAs(pg) /\ pg.seat_count = 12
    /\ call.params[1].token.signed_seat_count.value = <<"1", "2">>
    /\ call.executed[1].seat_count = 12

\* The billing_modality or the schedule is outside its enumeration.
OutsideEnumeration(params) ==
    \/ params.billing_modality \notin {"send_invoice", "charge_automatically"}
    \/ params.schedule \notin {"annual", "monthly"}

\* C4. Enumeration closure: a call whose billing_modality or schedule is outside its
\* enumeration ends at once in a validation error naming the first such parameter: no
\* UpgradeRequest is built, no billing session is created, do_upgrade is not invoked,
\* nothing is logged and the store is left as it was.
C4_EnumerationClosure ==
    /\ []((UpgradeCall /\ OutsideEnumeration(call.params[1].params)) =>
            /\ call.pc = "done"
            /\ call.response.kind = "JsonableError"
            /\ call.response.message =
                  <<"Invalid ",
                    IF call.params[1].params.billing_modality \notin {"send_invoice", "charge_automatically"}
                    THEN "billing_modality" ELSE "schedule">>
            /\ call.upgrade_request = <<>>
            /\ ~call.billing_session
            /\ call.do_upgrade_calls = 0
            /\ call.executed = <<>>
            /\ call.log = <<>>)
    /\ [][(call' # call /\ call'.op = "upgrade" /\ OutsideEnumeration(call'.params[1].params))
            => db' = db]_vars

\* A call with a valid billing_modality and a schedule outside the enumeration has been
\* rejected.
C4_Witness ==
    /\ UpgradeCall /\ call.pc = "done"
    /\ call.params[1].params.billing_modality = "charge_automatically"
    /\ call.params[1].params.schedule = "bogus"
    /\ call.response.kind = "JsonableError"
    /\ call.response.message = <<"Invalid ", "schedule">>

\* The call has ended after a step of its try block raised something that is no BillingError.
EndedByUnexpectedFailure ==
    /\ UpgradeCall /\ call.pc = "done"
    /\ call.raised # <<>>
    /\ call.raised[1].kind # "BillingError"

\* C9. Unexpected failure conversion: a call in which a step of the try block raised
\* something that is no BillingError ends in the BillingError 'uncaught exception during
\* upgrade' whose message is the contact-support text with the administrator address,
\* and nothing of the original failure is in what the client gets.
C9_UnexpectedFailureConversion ==
    EndedByUnexpectedFailure =>
        /\ call.response.kind = "BillingError"
        /\ call.response.error_description = <<"uncaught exception during upgrade">>
        /\ call.response.message =
              <<"Something went wrong. Please contact ", "desdemona", "@zulip.com", ".">>
        /\ ~Contains(call.response.message, call.raised[1].message)
        /\ ~Contains(call.response.message, call.raised[1].error_description)
        /\ ~Contains(call.response.error_description, call.raised[1].message)
        /\ call.response.data = <<>>

\* Building the success response failed after the upgrade was executed, and the client
\* got the contact-support error.
C9_Witness ==
    /\ EndedByUnexpectedFailure
    /\ call.executed # <<>>
    /\ call.raised[1].error_description = <<"AssertionError">>
    /\ call.response.error_description = <<"uncaught exception during upgrade">>

\* The call has ended after a step of its try block raised a BillingError.
EndedByBillingError ==
    /\ UpgradeCall /\ call.pc = "done"
    /\ call.raised # <<>>
    /\ call.raised[1].kind = "BillingError"

\* C10. Expected billing errors pass through: a call in which a BillingError was raised
\* logs one warning with the description, user id, organization id and identifier,
\* billing_modality, schedule, license_management and licenses, ends in that same
\* error, and has not invoked the back-end a second time.
C10_BillingErrorPassThrough ==
    EndedByBillingError =>
        /\ call.response = call.raised[1]
        /\ call.log =
              <<[level |-> "warning",
                 error_description |-> call.raised[1].error_description,
                 user |-> UserId(call.user), realm |-> 2, string_id |-> "zulip",
                 billing_modality |-> call.params[1].params.billing_modality,
                 schedule |-> call.params[1].params.schedule,
                 license_management |-> call.params[1].params.license_management,
                 licenses |-> call.params[1].params.licenses]>>
        /\ call.do_upgrade_calls <= 1

\* The back-end rejected an upgrade with manual license management of 5 licenses, and
\* the client got that rejection.
C10_Witness ==
    /\ EndedByBillingError
    /\ call.do_upgrade_calls = 1
    /\ call.params[1].params.license_management = "manual"
    /\ call.params[1].params.licenses = <<5>>
    /\ call.response.error_description = <<"not enough licenses">>
    /\ call.response.message = <<"You must purchase licenses for all active users.">>


(***************************************************************************)
(* Properties of concurrent and repeated sponsorship submissions.          *)
(***************************************************************************)
\* The transaction of request p has committed.
Committed(p) ==
    \/ req[p].pc = "send_email"
    \/ req[p].pc = "done" /\ req[p].response.kind = "json_success"
    \/ req[p].pc = "done" /\ req[p].response.kind = "Exception"
                          /\ req[p].response.raised_in = "send_email"

\* The step taken is request p deciding, inside its transaction, whether to write org_type.
DecidesOrgTypeWrite(p) ==
    /\ req[p].pc = "realm.save"
    /\ req'[p].pc = "update_customer_sponsorship_status"

\* C11. Same-organization concurrency: a submission that decides about its org_type
\* write after another submission for the organization has committed writes exactly
\* when the submitted type differs from the committed org_type.
C11_SecondComparesCommitted ==
    [][\A p \in Requests :
          (DecidesOrgTypeWrite(p) /\ \E q \in Requests \ {p} : Committed(q))
              => ((req'[p].tx.realm_saves # {})
                     <=> (db.realm.org_type # cleaned_data(req[p].post).organization_type))
      ]_vars


(***************************************************************************)
(* Properties of initial_upgrade.                                          *)
(***************************************************************************)
\* The most recent call is initial_upgrade by a member, with billing enabled.
VisitByMember ==
    /\ call.op = "initial_upgrade"
    /\ call.params[1].billing_enabled
    /\ call.user \notin Guests

\* The organization is sponsorship-pending or on the free-standard plan.
SponsorshipGuard(store) ==
    \/ store.customer.exists /\ store.customer.sponsorship_pending
    \/ store.realm.plan_type = PLAN_TYPE_STANDARD_FREE

\* C12. Billing-home redirect: a visit by a member with billing enabled, of an
\* organization neither sponsorship-pending nor on the free-standard plan, is answered
\* by the redirect to the billing home page (with onboarding=true when onboarding is
\* set) whenever an active plan exists or onboarding is set, with or without a
\* customer record; no page is rendered for it.
C12_BillingHomeRedirect ==
    (/\ VisitByMember
     /\ ~SponsorshipGuard(db)
     /\ (db.customer.exists /\ db.customer.has_plan) \/ call.params[1].onboarding)
        => /\ call.response.data[1] =
                 HttpResponseRedirect(IF call.params[1].onboarding
                                      THEN <<"/billing/", "?onboarding=true">>
                                      ELSE <<"/billing/">>)
           /\ call.response.data[1].context = <<>>

\* The step taken is a call of initial_upgrade.
InitialUpgradeStep ==
    /\ call'.op = "initial_upgrade"
    /\ UNCHANGED <<db, req, emails>>

\* C13. Guard precedence in initial_upgrade: with billing disabled or a guest user the
\* response is the 404 page whatever the organization's state; otherwise, for an
\* organization that is sponsorship-pending or on the free-standard plan, it is the
\* redirect to the sponsorship-request page, also when a plan exists or onboarding is set.
C13_GuardPrecedence ==
    [][InitialUpgradeStep =>
          /\ (~call'.params[1].billing_enabled \/ call'.user \in Guests)
                => /\ call'.response.data[1] = render_404
                   /\ pages' = pages
          /\ (call'.params[1].billing_enabled /\ call'.user \notin Guests /\ SponsorshipGuard(db))
                => /\ call'.response.data[1] = HttpResponseRedirect(<<"/sponsorship/">>)
                   /\ pages' = pages
      ]_vars

\* A member has visited, with onboarding set, an organization that is sponsorship-pending
\* and has an active plan, and was sent to the sponsorship-request page.
C13_Witness ==
    /\ VisitByMember
    /\ call.params[1].onboarding
    /\ db.customer.sponsorship_pending /\ db.customer.has_plan
    /\ call.response.data[1] = HttpResponseRedirect(<<"/sponsorship/">>)
    /\ \E p \in Requests : req[p].pc = "done" /\ req[p].response.kind = "json_success"


(***************************************************************************)
(* Properties of upgrade: the intent handed over and the result returned.  *)
(***************************************************************************)
\* C14. License-management inference: the upgrade intent handed to do_upgrade carries
\* the license_management the request supplied, and for a request that omits it,
\* "manual" if licenses was supplied and "automatic" if not; never an absent value.
C14_LicenseManagementInference ==
    (call.op = "upgrade" /\ call.do_upgrade_calls > 0)
        => LET params == call.params[1].params
               intent == call.upgrade_request[1]
           IN  intent.license_management =
                   IF params.license_management # None THEN params.license_management
                   ELSE IF params.licenses # <<>> THEN "manual"
                   ELSE "automatic"


\* The most recent call is an upgrade that has ended.
UpgradeEnded == call.op = "upgrade" /\ call.pc = "done"

\* do_upgrade has returned normally in the call, with a result.
BackendReturned == call.executed # <<>>

Persisted(p) ==
    /\ \E row \in db.rows : row.id = p
    /\ db.customer.exists /\ db.customer.sponsorship_pending
    /\ req[p].user \in db.billing_admins
    /\ req[p].tx = EmptyTx

\* C16. Notification ordering: every email handed to the mailer belongs to a submission
\* with a valid form whose transaction has committed, goes to the support address and
\* carries the requester's address as reply-to; an email is handed over only by the step
\* that follows the commit of its submission, one email at a time, to a submission that
\* has none yet, and a submission that has ended takes no further step.
C16_NotificationOrdering ==
    /\ [](\A e \in emails :
            /\ e.by \in Requests
            /\ form_is_valid(req[e.by].post)
            /\ Committed(e.by) /\ Persisted(e.by)
            /\ ~FailedInBlock(e.by)
            /\ e.to_emails = {FromAddress_SUPPORT}
            /\ e.reply_to_email = delivery_email(req[e.by].user))
    /\ [][/\ emails' # emails =>
               \E p \in Requests :
                   /\ req[p].pc = "send_email" /\ req'[p].pc = "done"
                   /\ Committed(p) /\ Persisted(p)
                   /\ \A e \in emails : e.by # p
                   /\ \E e \in emails' : e.by = p /\ emails' = emails \cup {e}
                   /\ db' = db
          /\ \A p \in Requests : req[p].pc = "done" => req'[p] = req[p]
         ]_vars

\* One submission has been notified about after its commit, and another, rolled back,
\* has not.
C16_Witness ==
    \E p, q \in Requests :
        /\ \E e \in emails : e.by = p /\ e.reply_to_email = delivery_email(RequestUser(p))
        /\ req[p].response.kind = "json_success"
        /\ Persisted(p)
        /\ FailedInBlock(q)
        /\ \A e \in emails : e.by # q


\* The call of request p has ended by a failure to send the notification email.
EmailFailed(p) ==
    /\ req[p].pc = "done"
    /\ req[p].response.kind = "Exception"
    /\ req[p].response.raised_in = "send_email"

\* C17. Email failure does not roll back: the step in which sending fails leaves the
\* store as the commit left it, so the row, the pending flag, the billing-admin grant and
\* the org_type write of the submission stay persisted; the call ends by the failure, not
\* by a success response, and no email of the submission is in the outbox.
C17_EmailFailureKeepsCommit ==
    /\ [](\A p \in Requests :
            EmailFailed(p) => /\ Persisted(p)
                              /\ \A e \in emails : e.by # p)
    /\ [][\A p \in Requests :
            (req[p].pc = "send_email" /\ req'[p].pc = "done" /\ emails' = emails)
                => /\ db' = db
                   /\ Persisted(p)
                   /\ req'[p].response = Raised("send_email")
         ]_vars

\* Sending has failed for a submission that changed the org_type; everything it wrote is
\* in the store.
C17_Witness ==
    \E p \in Requests :
        /\ EmailFailed(p)
        /\ Persisted(p)
        /\ [by |-> p, update_fields |-> {"org_type"}] \in db.realm_saves
        /\ db.realm.org_type = 20
        /\ cleaned_data(req[p].post).organization_type = 20


\* The row is linked to the organization and the requester of submission p and holds
\* the validated values of its form.
RowOf(row, p) ==
    LET data == cleaned_data(req[p].post) IN
    /\ row.id = p
    /\ row.realm = "zulip"
    /\ row.requested_by = RequestUser(p)
    /\ row.requested_by = req[p].user
    /\ form_is_valid(req[p].post)
    /\ row.org_website = data.website
    /\ row.org_description = data.description
    /\ row.org_type = data.organization_type
    /\ row.expected_total_users = data.expected_total_users
    /\ row.paid_users_count = data.paid_users_count
    /\ row.paid_users_description = data.paid_users_description

\* C18. Request rows: the store holds exactly one row for each submission whose
\* transaction has committed and no other row, each row is linked to the organization
\* and the requester of its submission and holds the validated values of its form, and no
\* step removes or changes a row that is in the store.
C18_RequestRowsOncePerCommit ==
    /\ [](/\ Cardinality(db.rows) = Cardinality({p \in Requests : Committed(p)})
          /\ \A p \in Requests : Committed(p) => \E row \in db.rows : row.id = p
          /\ \A row \in db.rows : row.id \in Requests /\ Committed(row.id) /\ RowOf(row, row.id))
    /\ [][db.rows \subseteq db'.rows]_vars

\* Every submission, all for the same organization, has committed: the store holds one
\* row for each, by different requesters.
C18_Witness ==
    /\ \A p \in Requests : Committed(p)
    /\ Cardinality(db.rows) = NumRequests
    /\ \E r1, r2 \in db.rows : r1.requested_by = "hamlet" /\ r2.requested_by = "iago"
                               /\ r1.realm = r2.realm


(***************************************************************************)
(* Sponsorship submissions and later visits of the upgrade page.           *)
(***************************************************************************)
\* C19. Sponsorship-pending is sticky: no step clears the customer's pending flag, the
\* flag is set once a submission has committed, and every call of initial_upgrade by a
\* member with billing enabled that comes after a commit is answered by the redirect to
\* the sponsorship-request page, renders no page and issues no signed seat count,
\* whatever onboarding says and whether or not a plan exists.
C19_PendingSticky ==
    /\ [](\A p \in Requests :
            Committed(p) => db.customer.exists /\ db.customer.sponsorship_pending)
    /\ [][/\ db.customer.sponsorship_pending => db'.customer.sponsorship_pending
          /\ (/\ InitialUpgradeStep
              /\ call'.params[1].billing_enabled
              /\ call'.user \notin Guests
              /\ \E p \in Requests : Committed(p))
                 => /\ call'.response.data[1] = HttpResponseRedirect(<<"/sponsorship/">>)
                    /\ call'.response.data[1].context = <<>>
                    /\ pages' = pages
         ]_vars

\* The upgrade page was rendered for a limited-plan organization before its submission
\* committed; a visit after the commit, without onboarding, is sent to the
\* sponsorship-request page.
C19_Witness ==
    /\ VisitByMember
    /\ ~call.params[1].onboarding
    /\ pages # {}
    /\ db.realm.plan_type = PLAN_TYPE_LIMITED
    /\ ~db.customer.has_plan
    /\ \E p \in Requests : Committed(p)
    /\ call.response.data[1] = HttpResponseRedirect(<<"/sponsorship/">>)

====
